---- MODULE Spec2Model ----
(***************************************************************************)
(* ropose: the node of src/ropose/src/ropose.cpp.  One thread runs the     *)
(* loop of main(): look the latest /odom -> /base_link transform up in the *)
(* tf listener, project it to a Pose2D (x, y, rotation angle), publish it  *)
(* on "/ropose" (queue size 1), pace at 10 Hz.  The tf listener is filled  *)
(* by its own thread, the running flag is cleared by the ROS runtime and   *)
(* the published messages are taken by a subscriber: these three are the   *)
(* environment.                                                            *)
(*                                                                         *)
(* Units: lengths are in tenths (1.0 is 10), quaternion components in      *)
(* thousandths (1.0 is 1000), angles in degrees.                           *)
(***************************************************************************)
EXTENDS Integers, Sequences, FiniteSets, TLC

VARIABLES
    pc,           \* position of main(): the statement it executes next
    ok,           \* what ros::ok() returns
    tf_listener,  \* what the listener holds for /odom -> /base_link
    tf,           \* the local tf::StampedTransform of the iteration
    pose,         \* the local geometry_msgs::Pose2D of the iteration
    queue,        \* outgoing queue of pose_pub: publish numbers, oldest first
    delivered,    \* the last message the subscriber took, and when
    iter,         \* history: number of iterations started
    sampled,      \* history: the outcome of the lookup of each iteration
    sink,         \* history: the poses handed to pose_pub.publish, in order
    log,          \* history: the steps executed, each with its iteration
    signal,       \* history: Len(log) when shutdown was signalled, -1 before
    now,          \* the clock ros::Time::now() reads, in ticks of 50 ms
    rate,         \* the ros::Rate: start_, the scheduled start of its cycle
    began,        \* history: the time each iteration entered the loop body
    paced         \* history: each rate.sleep(): called, returned, start_ then

vars == <<pc, ok, tf_listener, tf, pose, queue, delivered, iter, sampled, sink, log,
          signal, now, rate, began, paced>>

clock == <<now, rate, began, paced>>

\* Number of loop iterations a behaviour of the model runs.
MaxIter == 3

\* Ticks an iteration may spend between entering the body and rate.sleep().
MaxWork == 5

\* ros::Rate rate(10.0): the cycle time, 100 ms, in ticks of 50 ms.
expected_cycle_time == 2

\* advertise<geometry_msgs::Pose2D>("/ropose", 1): the queue size.
queue_size == 1

------------------------------------------------------------------------------
(* Values *)

\* tf::StampedTransform tf; the default constructor initialises nothing, and
\* the value is never read before lookupTransform has overwritten it.
Uninit == [init |-> FALSE, origin |-> <<0, 0, 0>>, rot |-> <<0, 0, 0, 0>>]

Transform(o, q) == [init |-> TRUE, origin |-> o, rot |-> q]

\* Unit quaternions <<x, y, z, w>> of rotations by multiples of 30 and 45
\* degrees about one axis, and one compound rotation.
QIdentity == <<0, 0, 0, 1000>>
QYaw(deg) ==
    CASE deg = 0    -> <<0, 0, 0, 1000>>
      [] deg = 60   -> <<0, 0, 500, 866>>
      [] deg = 90   -> <<0, 0, 707, 707>>
      [] deg = 180  -> <<0, 0, 1000, 0>>
      [] deg = 270  -> <<0, 0, 707, -707>>
      [] deg = -90  -> <<0, 0, -707, 707>>
      [] deg = -60  -> <<0, 0, -500, 866>>
Yaws == {0, 60, 90, 180, 270, -90, -60}
QRoll90 == <<707, 0, 0, 707>>
QPitch90 == <<0, 707, 0, 707>>
QRoll90Yaw90 == <<500, 500, 500, 500>>
Rotations == {QYaw(d) : d \in Yaws} \cup {QRoll90, QPitch90, QRoll90Yaw90}

Zs == {5, 0}

Origins == {<<x, y, z>> : x \in {10, -15}, y \in {20, 0}, z \in Zs}

AllTransforms == {Transform(o, q) : o \in Origins, q \in Rotations}

\* The transforms the listener receives in the loop specification.
SomeTransforms == {Transform(<<10, 20, 5>>, QIdentity),
                   Transform(<<-15, 0, 0>>, QRoll90)}

\* The exceptions lookupTransform throws, all derived from
\* tf::TransformException.
ExceptionTypes == {"tf::LookupException", "tf::ConnectivityException",
                   "tf::ExtrapolationException"}

Bases(type) ==
    IF type \in ExceptionTypes
    THEN {type, "tf::TransformException", "std::runtime_error"}
    ELSE {type}

Available(t) == [ex |-> "none", tf |-> t]
Unavailable(type) == [ex |-> type, tf |-> Uninit]

\* What the listener can hold in the loop specification.
TfStates == {Available(t) : t \in SomeTransforms}
            \cup {Unavailable(e) : e \in ExceptionTypes}

ZeroPose == [x |-> 0, y |-> 0, theta |-> 0]

NoDelivery == [idx |-> 0, at |-> 0]

------------------------------------------------------------------------------
(* The Projector: lines 32-36 *)

getOrigin(t) == t.origin
getRotation(t) == t.rot

\* tfAcos: clamps to [-1, 1], then acos; in degrees, on the grid of cosines
\* the quaternions above use.
tfAcos(c) ==
    LET x == IF c < -1000 THEN -1000 ELSE IF c > 1000 THEN 1000 ELSE c
    IN CASE x = 1000  -> 0
         [] x = 866   -> 30
         [] x = 707   -> 45
         [] x = 500   -> 60
         [] x = 0     -> 90
         [] x = -500  -> 120
         [] x = -707  -> 135
         [] x = -866  -> 150
         [] x = -1000 -> 180

\* A yaw-only decomposition: the rotation about z, nothing for a rotation
\* about another axis.
getAngleYawOnly(q) == IF q[1] = 0 /\ q[2] = 0 THEN 2 * tfAcos(q[4]) ELSE 0

\* tf::Quaternion::getAngle: 2 * acos(w).
getAngle(q) == 2 * tfAcos(q[4])

\* pose.y taken from the wrong component.
ProjectorYFromZ(t) ==
    [x     |-> getOrigin(t)[1],
     y     |-> getOrigin(t)[3],
     theta |-> getAngle(getRotation(t))]

Projector(t) ==
    [x     |-> getOrigin(t)[1],
     y     |-> getOrigin(t)[2],
     theta |-> getAngle(getRotation(t))]

------------------------------------------------------------------------------
(* The publisher queue: line 11 and line 38 *)

\* The queue of advertise("/ropose", 0): unbounded, it keeps a backlog.
EnqueueBacklog(q, m) == Append(q, m)

\* A publisher queue of queue_size messages drops the oldest when full.
Enqueue(q, m) ==
    IF Len(q) >= queue_size THEN Append(Tail(q), m) ELSE Append(q, m)

\* catch (tf::LookupException& ex): one derived class only.
CatchesLookupOnly(type) == "tf::LookupException" \in Bases(type)

\* catch (tf::TransformException& ex): catches the class and what derives
\* from it.
Catches(type) == "tf::TransformException" \in Bases(type)

Step(s) == [step |-> s, iter |-> iter]

Max(a, b) == IF a >= b THEN a ELSE b

\* A fixed-delay pace: always a full period from the call.
RateSleepFixedDelay(r, t) ==
    [rate |-> [start |-> t + expected_cycle_time], now |-> t + expected_cycle_time]

\* ros::Rate::sleep() called at time t: sleep until start_ plus the cycle
\* time, which becomes the new start_; when that instant has passed return
\* at once, and when it passed more than a cycle ago restart from t.
RateSleep(r, t) ==
    LET expected_end == IF t < r.start
                        THEN t + expected_cycle_time
                        ELSE r.start + expected_cycle_time
        sleep_time == expected_end - t
    IN IF sleep_time <= 0
       THEN [rate |-> [start |-> IF t > expected_end + expected_cycle_time
                                 THEN t ELSE expected_end],
             now  |-> t]
       ELSE [rate |-> [start |-> expected_end], now |-> expected_end]

\* rate.sleep() at lines 28 and 41.
Pace ==
    LET r == RateSleep(rate, now)
    IN /\ rate' = r.rate
       /\ now' = r.now
       /\ paced' = Append(paced, [called |-> now, returned |-> r.now, sched |-> rate.start])
       /\ UNCHANGED began

------------------------------------------------------------------------------
(* The loop of main() *)

Init ==
    /\ pc = "while"
    /\ ok = TRUE
    /\ tf_listener \in TfStates
    /\ tf = Uninit
    /\ pose = ZeroPose
    /\ queue = <<>>
    /\ delivered = NoDelivery
    /\ iter = 0
    /\ sampled = <<>>
    /\ sink = <<>>
    /\ log = <<>>
    /\ signal = -1
    /\ now = 0
    /\ rate = [start |-> 0]
    /\ began = <<>>
    /\ paced = <<>>

\* The test of ros::ok() that begins or ends the loop, as a step of the
\* iteration it would begin.
Check(result) ==
    [step |-> IF result THEN "check_true" ELSE "check_false", iter |-> iter + 1]

\* while (true): the loop never tests ros::ok().
WhileForever ==
    /\ pc = "while"
    /\ iter < MaxIter
    /\ log' = Append(log, Check(TRUE))
    /\ pc' = "lookup"
    /\ iter' = iter + 1
    /\ tf' = Uninit
    /\ began' = Append(began, now)
    /\ UNCHANGED <<ok, tf_listener, pose, queue, delivered, sampled, sink>>
    /\ UNCHANGED <<signal, now, rate, paced>>

\* Line 17, and line 19 when the loop is entered.
While ==
    /\ pc = "while"
    /\ ok => iter < MaxIter
    /\ log' = Append(log, Check(ok))
    /\ IF ok
       THEN /\ pc' = "lookup"
            /\ iter' = iter + 1
            /\ tf' = Uninit
            /\ began' = Append(began, now)
       ELSE /\ pc' = "done"
            /\ UNCHANGED <<iter, tf, began>>
    /\ UNCHANGED <<ok, tf_listener, pose, queue, delivered, sampled, sink>>
    /\ UNCHANGED <<signal, now, rate, paced>>

\* A lookup that keeps failing once it has failed, until something resets it.
LookupTransformSticky ==
    /\ pc = "lookup"
    /\ sampled' = Append(sampled, tf_listener)
    /\ log' = Append(log, Step("lookup"))
    /\ IF tf_listener.ex = "none" /\ \A i \in 1..Len(sampled) : sampled[i].ex = "none"
       THEN /\ tf' = tf_listener.tf
            /\ pc' = "project"
       ELSE /\ tf' = tf
            /\ pc' = "catch"
    /\ UNCHANGED <<ok, tf_listener, pose, queue, delivered, iter, sink>>
    /\ UNCHANGED <<signal, now, rate, began, paced>>

\* A lookup that swallows its exception and returns with tf untouched.
LookupTransformSwallow ==
    /\ pc = "lookup"
    /\ sampled' = Append(sampled, tf_listener)
    /\ log' = Append(log, Step("lookup"))
    /\ tf' = IF tf_listener.ex = "none" THEN tf_listener.tf ELSE tf
    /\ pc' = "project"
    /\ UNCHANGED <<ok, tf_listener, pose, queue, delivered, iter, sink>>
    /\ UNCHANGED <<signal, now, rate, began, paced>>

\* Lines 21-26: the lookup at ros::Time(0), the latest the listener holds.
LookupTransform ==
    /\ pc = "lookup"
    /\ sampled' = Append(sampled, tf_listener)
    /\ log' = Append(log, Step("lookup"))
    /\ IF tf_listener.ex = "none"
       THEN /\ tf' = tf_listener.tf
            /\ pc' = "project"
       ELSE /\ tf' = tf
            /\ pc' = IF Catches(tf_listener.ex) THEN "catch" ELSE "abort"
    /\ UNCHANGED <<ok, tf_listener, pose, queue, delivered, iter, sink>>
    /\ UNCHANGED <<signal, now, rate, began, paced>>

\* catch without the continue: control falls through to line 32.
CatchFallThrough ==
    /\ pc = "catch"
    /\ log' = Append(log, Step("sleep"))
    /\ pc' = "project"
    /\ UNCHANGED <<ok, tf_listener, tf, pose, queue, delivered, iter, sampled, sink>>
    /\ Pace
    /\ UNCHANGED signal

\* catch with a break in place of the continue.
CatchBreak ==
    /\ pc = "catch"
    /\ log' = Append(log, Step("sleep"))
    /\ pc' = "done"
    /\ UNCHANGED <<ok, tf_listener, tf, pose, queue, delivered, iter, sampled, sink>>
    /\ Pace
    /\ UNCHANGED signal

\* catch without the rate.sleep(): the lookup is retried at once.
CatchBusyRetry ==
    /\ pc = "catch"
    /\ tf' = Uninit
    /\ pose' = ZeroPose
    /\ pc' = "while"
    /\ UNCHANGED <<ok, tf_listener, queue, delivered, iter, sampled, sink, log>>
    /\ UNCHANGED <<signal, now, rate, began, paced>>

\* Lines 28-29: rate.sleep(); continue; the locals of the body end here.
Catch ==
    /\ pc = "catch"
    /\ log' = Append(log, Step("sleep"))
    /\ tf' = Uninit
    /\ pose' = ZeroPose
    /\ pc' = "while"
    /\ UNCHANGED <<ok, tf_listener, queue, delivered, iter, sampled, sink>>
    /\ Pace
    /\ UNCHANGED signal

\* A projection smoothed with the pose published before.
ProjectSmoothed ==
    /\ pc = "project"
    /\ pose' = IF sink = <<>>
               THEN Projector(tf)
               ELSE LET p == Projector(tf)
                        l == sink[Len(sink)]
                    IN [x     |-> (p.x + l.x) \div 2,
                        y     |-> (p.y + l.y) \div 2,
                        theta |-> (p.theta + l.theta) \div 2]
    /\ pc' = "publish"
    /\ UNCHANGED <<ok, tf_listener, tf, queue, delivered, iter, sampled, sink, log>>
    /\ UNCHANGED <<signal, now, rate, began, paced>>

\* A projection that tests ros::ok() first and leaves the loop when it is
\* false: a cancellation point in the middle of the iteration.
ProjectCancellable ==
    /\ pc = "project"
    /\ log' = Append(log, [step |-> IF ok THEN "check_true" ELSE "check_false",
                           iter |-> iter])
    /\ pose' = IF ok THEN Projector(tf) ELSE pose
    /\ pc' = IF ok THEN "publish" ELSE "done"
    /\ UNCHANGED <<ok, tf_listener, tf, queue, delivered, iter, sampled, sink>>
    /\ UNCHANGED <<signal, now, rate, began, paced>>

\* Lines 32-36.
Project ==
    /\ pc = "project"
    /\ pose' = Projector(tf)
    /\ pc' = "publish"
    /\ UNCHANGED <<ok, tf_listener, tf, queue, delivered, iter, sampled, sink, log>>
    /\ UNCHANGED <<signal, now, rate, began, paced>>

\* A publish that hands the poses over last in, first out.
PublishLifo ==
    /\ pc = "publish"
    /\ sink' = <<pose>> \o sink
    /\ queue' = Enqueue(queue, Len(sink) + 1)
    /\ log' = Append(log, Step("publish"))
    /\ pc' = "spin"
    /\ UNCHANGED <<ok, tf_listener, tf, pose, delivered, iter, sampled>>
    /\ UNCHANGED <<signal, now, rate, began, paced>>

\* Line 38.
Publish ==
    /\ pc = "publish"
    /\ sink' = Append(sink, pose)
    /\ queue' = Enqueue(queue, Len(sink) + 1)
    /\ log' = Append(log, Step("publish"))
    /\ pc' = "spin"
    /\ UNCHANGED <<ok, tf_listener, tf, pose, delivered, iter, sampled>>
    /\ UNCHANGED <<signal, now, rate, began, paced>>

\* Lines 40-41 without the rate.sleep().
SpinOnceNoSleep ==
    /\ pc = "spin"
    /\ pc' = "while"
    /\ UNCHANGED <<ok, tf_listener, tf, pose, queue, delivered, iter, sampled, sink, log>>
    /\ UNCHANGED <<signal, now, rate, began, paced>>

\* Line 40: the node has no callbacks of its own to run.
SpinOnce ==
    /\ pc = "spin"
    /\ pc' = "sleep"
    /\ UNCHANGED <<ok, tf_listener, tf, pose, queue, delivered, iter, sampled, sink, log>>
    /\ UNCHANGED <<signal, now, rate, began, paced>>

\* Lines 41-42: the locals of the body end here.
Sleep ==
    /\ pc = "sleep"
    /\ log' = Append(log, Step("sleep"))
    /\ tf' = Uninit
    /\ pose' = ZeroPose
    /\ pc' = "while"
    /\ UNCHANGED <<ok, tf_listener, queue, delivered, iter, sampled, sink>>
    /\ Pace
    /\ UNCHANGED signal

------------------------------------------------------------------------------
(* The environment *)

\* The runtime signals shutdown: ros::ok() is false from then on.
Shutdown ==
    /\ ok
    /\ pc \notin {"done", "abort"}
    /\ ok' = FALSE
    /\ UNCHANGED <<pc, tf_listener, tf, pose, queue, delivered, iter, sampled, sink, log>>
    /\ signal' = Len(log)
    /\ UNCHANGED clock

\* The listener's thread: a new transform arrives, or the frames stop
\* being connected.
TfUpdate ==
    /\ pc \notin {"done", "abort"}
    /\ \E new \in TfStates :
          /\ new # tf_listener
          /\ tf_listener' = new
    /\ UNCHANGED <<pc, ok, tf, pose, queue, delivered, iter, sampled, sink, log>>
    /\ UNCHANGED <<signal, now, rate, began, paced>>

\* The frames stop being connected, for good.
TfDropout ==
    /\ pc \notin {"done", "abort"}
    /\ tf_listener.ex = "none"
    /\ \E e \in ExceptionTypes : tf_listener' = Unavailable(e)
    /\ UNCHANGED <<pc, ok, tf, pose, queue, delivered, iter, sampled, sink, log>>
    /\ UNCHANGED <<signal, now, rate, began, paced>>

\* The robot moves vertically, x, y and orientation unchanged.
TfVertical ==
    /\ pc \notin {"done", "abort"}
    /\ tf_listener.ex = "none"
    /\ \E z \in Zs :
          /\ z # tf_listener.tf.origin[3]
          /\ tf_listener' = [tf_listener EXCEPT !.tf.origin[3] = z]
    /\ UNCHANGED <<pc, ok, tf, pose, queue, delivered, iter, sampled, sink, log>>
    /\ UNCHANGED <<signal, now, rate, began, paced>>

\* Time passes while the body works, up to MaxWork ticks an iteration.
Tick ==
    /\ pc \in {"lookup", "catch", "project", "publish", "spin", "sleep"}
    /\ now - began[iter] < MaxWork
    /\ now' = now + 1
    /\ UNCHANGED <<pc, ok, tf_listener, tf, pose, queue, delivered, iter, sampled, sink, log>>
    /\ UNCHANGED <<signal, rate, began, paced>>

\* The subscriber takes the oldest message of the queue.
Consume ==
    /\ queue # <<>>
    /\ delivered' = [idx |-> Head(queue), at |-> Len(sink)]
    /\ queue' = Tail(queue)
    /\ UNCHANGED <<pc, ok, tf_listener, tf, pose, iter, sampled, sink, log>>
    /\ UNCHANGED <<signal, now, rate, began, paced>>

Loop == While \/ LookupTransform \/ Catch \/ Project \/ Publish \/ SpinOnce \/ Sleep

Next == Loop \/ Shutdown \/ TfUpdate \/ Consume

Spec == Init /\ [][Next]_vars

\* The thread of main() keeps running: the lookup, the publish and the pace
\* step return.
SpecFair == Init /\ [][Next]_vars /\ WF_vars(Loop)

\* The loop with the time its steps take, and a listener that can only lose
\* the transform.
NextPacing == Loop \/ Shutdown \/ Tick \/ TfDropout

SpecPacing == Init /\ [][NextPacing]_vars

\* A robot that stands still at any of AllTransforms until the frames stop
\* being connected.
InitProjector ==
    /\ pc = "while"
    /\ ok = TRUE
    /\ tf_listener \in {Available(t) : t \in AllTransforms}
    /\ tf = Uninit
    /\ pose = ZeroPose
    /\ queue = <<>>
    /\ delivered = NoDelivery
    /\ iter = 0
    /\ sampled = <<>>
    /\ sink = <<>>
    /\ log = <<>>
    /\ signal = -1
    /\ now = 0
    /\ rate = [start |-> 0]
    /\ began = <<>>
    /\ paced = <<>>

NextProjector == Loop \/ Shutdown \/ TfDropout \/ TfVertical \/ Consume

SpecProjector == InitProjector /\ [][NextProjector]_vars

TypeOK ==
    /\ pc \in {"while", "lookup", "catch", "project", "publish", "spin", "sleep", "done", "abort"}
    /\ ok \in BOOLEAN
    /\ iter \in 0..MaxIter
    /\ Len(sampled) <= iter
    /\ Len(sink) <= Len(sampled)
    /\ Len(queue) <= queue_size

------------------------------------------------------------------------------
(* Properties *)

IsFail(i) == i \in 1..Len(sampled) /\ sampled[i].ex # "none"
IsSuccess(i) == i \in 1..Len(sampled) /\ sampled[i].ex = "none"

\* The iteration has returned to line 17.
Completed(i) == i < iter \/ (i = iter /\ pc \in {"while", "done"})

Entries(s, i) == {n \in DOMAIN log : log[n] = [step |-> s, iter |-> i]}
Count(s, i) == Cardinality(Entries(s, i))

\* C1 (skip-on-unavailable): an iteration whose lookup throws a
\* tf::TransformException publishes nothing, nothing reaches the process as
\* an uncaught exception, and control goes through the pace step back to the
\* loop head, from where the next iteration starts.
C1_SkipOnUnavailable ==
    /\ pc # "abort"
    /\ \A i \in 1..Len(sampled) :
          IsFail(i) =>
             /\ Count("publish", i) = 0
             /\ i = iter => \/ pc \in {"catch", "while"}
                            \/ pc = "done" /\ ~ok
             /\ Completed(i) => Count("sleep", i) = 1
             /\ i < Len(sampled) => Count("lookup", i + 1) = 1

\* Iteration 1 failed with an exception of a derived class and iteration 2
\* has looked up.
C1_Witness ==
    /\ Len(sampled) = 2
    /\ sampled[1].ex = "tf::ExtrapolationException"
    /\ Count("lookup", 2) = 1

\* The number of successful lookups among iterations 1..i.
Successes(i) == Cardinality({j \in 1..i : IsSuccess(j)})

PublishesIn(a, b) ==
    {n \in DOMAIN log : log[n].step = "publish" /\ log[n].iter \in a..b}

\* C2 (resume-after-recovery): over three consecutive iterations k, k+1, k+2
\* with the outcomes fail, fail, success(T) the sink receives nothing before
\* the third one publishes, and from then on exactly one pose, Projector(T).
C2_ResumeAfterRecovery ==
    \A k \in 1..Len(sampled) :
       (IsFail(k) /\ IsFail(k + 1) /\ IsSuccess(k + 2)) =>
          IF k + 2 < iter \/ pc \in {"spin", "sleep", "while", "done"}
          THEN /\ Cardinality(PublishesIn(k, k + 2)) = 1
               /\ Count("publish", k + 2) = 1
               /\ Len(sink) >= Successes(k + 2)
               /\ sink[Successes(k + 2)] = Projector(sampled[k + 2].tf)
          ELSE /\ PublishesIn(k, k + 2) = {}
               /\ Len(sink) = Successes(k + 2) - 1

\* The run fail, fail, success(T) has completed and the sink holds one pose.
C2_Witness ==
    /\ Len(sampled) = 3 /\ IsFail(1) /\ IsFail(2) /\ IsSuccess(3)
    /\ pc = "while"
    /\ sink = <<Projector(sampled[3].tf)>>

\* The position in the log of the publish of iteration i.
PubIdx(i) == CHOOSE n \in DOMAIN log : log[n] = [step |-> "publish", iter |-> i]

SleepsBetween(m, n) ==
    Cardinality({k \in DOMAIN log : m < k /\ k < n /\ log[k].step = "sleep"})

\* C3 (rate bound): in every window a..b of completed iterations whose
\* lookups all succeeded there are b - a + 1 publishes, one in each iteration,
\* and exactly one pace step between two consecutive ones.
C3_RateBound ==
    \A a, b \in 1..iter :
       (a <= b /\ \A i \in a..b : IsSuccess(i) /\ Completed(i)) =>
          /\ Cardinality(PublishesIn(a, b)) = b - a + 1
          /\ \A i \in a..b : Count("publish", i) = 1
          /\ \A i \in a..(b - 1) : SleepsBetween(PubIdx(i), PubIdx(i + 1)) = 1

\* Three iterations in a row succeeded and completed.
C3_Witness ==
    /\ iter = 3
    /\ \A i \in 1..3 : IsSuccess(i) /\ Completed(i)
    /\ Len(sink) = 3

\* The iteration that made the k-th publish.
IterOfPublish(k) ==
    LET P == PublishesIn(1, iter)
        n == CHOOSE m \in P : Cardinality({l \in P : l <= m}) = k
    IN log[n].iter

\* The transform the k-th published pose was computed from.
SampleOfPublish(k) == sampled[IterOfPublish(k)].tf

SamePlanar(t, u) ==
    /\ t.origin[1] = u.origin[1]
    /\ t.origin[2] = u.origin[2]
    /\ t.rot = u.rot

\* C4 (planar projection of position): every published pose has the x and y
\* of the translation it was computed from, two samples that differ in z
\* only give the same pose, and translation (1.0, 2.0, 0.5) with the identity
\* rotation gives x 1.0, y 2.0, heading 0.
C4_PlanarProjection ==
    \A k \in 1..Len(sink) :
       LET t == SampleOfPublish(k)
       IN /\ sink[k].x = t.origin[1]
          /\ sink[k].y = t.origin[2]
          /\ t = Transform(<<10, 20, 5>>, QIdentity)
                => sink[k] = [x |-> 10, y |-> 20, theta |-> 0]
          /\ \A j \in 1..Len(sink) :
                SamePlanar(SampleOfPublish(j), t) => sink[j] = sink[k]

\* The scenario of the specification was published, then the same transform
\* at another height.
C4_Witness ==
    /\ Len(sink) = 2
    /\ SampleOfPublish(1) = Transform(<<10, 20, 5>>, QIdentity)
    /\ SampleOfPublish(2) = Transform(<<10, 20, 0>>, QIdentity)
    /\ sink[2] = [x |-> 10, y |-> 20, theta |-> 0]

\* C5 (heading is the total rotation angle): a rotation by yaw d alone is
\* published with heading d or -d, a roll or a pitch of 90 degrees with no
\* yaw with heading 90, not 0, and the compound rotation with its total
\* angle, 120.
C5_HeadingTotalAngle ==
    \A k \in 1..Len(sink) :
       LET q == SampleOfPublish(k).rot
       IN /\ \A d \in Yaws : q = QYaw(d) => sink[k].theta \in {d, -d}
          /\ q = QRoll90 => sink[k].theta # 0 /\ sink[k].theta = 90
          /\ q = QPitch90 => sink[k].theta = 90
          /\ q = QRoll90Yaw90 => sink[k].theta = 120

\* A pose of a rolled robot was published.
C5_Witness ==
    /\ Len(sink) >= 1
    /\ SampleOfPublish(1).rot = QRoll90
    /\ sink[1].theta = 90

\* The iteration has passed line 38 or left the body.
PastPublish(i) == i < iter \/ (i = iter /\ pc \in {"spin", "sleep", "while", "done"})

\* C6 (automatic recovery): the iterations of a period of failed lookups
\* publish nothing, and the first iteration after it whose lookup succeeds
\* publishes, once, the pose of its own sample.
C6_AutomaticRecovery ==
    \A a, b \in 1..Len(sampled) :
       (a <= b /\ \A i \in a..b : IsFail(i)) =>
          /\ PublishesIn(a, b) = {}
          /\ (IsSuccess(b + 1) /\ PastPublish(b + 1)) =>
                /\ Count("publish", b + 1) = 1
                /\ Len(sink) >= Successes(b + 1)
                /\ sink[Successes(b + 1)] = Projector(sampled[b + 1].tf)

\* A publish, a failure, and a publish again.
C6_Witness ==
    /\ Len(sampled) = 3
    /\ IsSuccess(1) /\ IsFail(2) /\ IsSuccess(3)
    /\ Len(sink) = 2

\* C7 (no internal termination): main leaves the loop only from the test of
\* line 17 and only when ros::ok() is false, never by an exception, whatever
\* lookups have failed.
C7_NoInternalTermination ==
    [][/\ pc' # "abort"
       /\ (pc # "done" /\ pc' = "done") => (pc = "while" /\ ~ok)]_vars

\* Every lookup failed and the loop is still running.
C7_Witness ==
    /\ iter = MaxIter
    /\ Len(sampled) = MaxIter
    /\ \A i \in 1..MaxIter : IsFail(i)
    /\ pc = "while"
    /\ ok

\* The k-th iteration whose lookup succeeded.
KthSuccess(k) == CHOOSE i \in 1..Len(sampled) : IsSuccess(i) /\ Successes(i) = k

Rank(s) ==
    CASE s \in {"check_true", "check_false"} -> 0
      [] s = "lookup" -> 1
      [] s = "publish" -> 2
      [] s = "sleep" -> 3

\* C8 (publication ordering): the k-th pose of the sink is the pose of the
\* k-th successful iteration, and the steps of the iterations do not
\* interleave: in the order executed they are sorted by iteration and,
\* within one, sample, publish, pace, each at most once, and an iteration
\* has paced before the next one samples.
C8_PublicationOrdering ==
    /\ \A k \in 1..Len(sink) :
          /\ IterOfPublish(k) = KthSuccess(k)
          /\ sink[k] = Projector(sampled[KthSuccess(k)].tf)
    /\ \A m, n \in DOMAIN log :
          m < n => \/ log[m].iter < log[n].iter
                   \/ /\ log[m].iter = log[n].iter
                      /\ Rank(log[m].step) < Rank(log[n].step)
    /\ \A i \in 1..iter :
          Count("lookup", i + 1) = 1 => Count("lookup", i) = 1 /\ Count("sleep", i) = 1

\* Two different poses have been published, and a third iteration sampled.
C8_Witness ==
    /\ Len(sink) = 2
    /\ sink[1] # sink[2]
    /\ Len(sampled) = 3

\* C9 (statelessness): two publishes computed from the same sample are the
\* same pose whatever was sampled, published or failed before them; the
\* transform projected is the one sampled in the same iteration; and at the
\* loop head the locals hold nothing of the iterations before.
C9_Stateless ==
    /\ \A j, k \in 1..Len(sink) :
          SampleOfPublish(j) = SampleOfPublish(k) => sink[j] = sink[k]
    /\ pc \in {"project", "publish"} => tf = sampled[iter].tf
    /\ pc = "publish" => pose = Projector(sampled[iter].tf)
    /\ pc \in {"while", "done"} => tf = Uninit /\ pose = ZeroPose

\* The same sample was published first and, after another sample, again.
C9_Witness ==
    /\ Len(sink) = 3
    /\ sampled[1] = sampled[3]
    /\ sampled[2] # sampled[1]
    /\ sink[1] = sink[3]

\* C10 (queue depth 1): the publisher queue holds at most one pose, the one
\* published last, so what the subscriber takes is the latest pose published
\* by then.
C10_QueueDepthOne ==
    /\ Len(queue) <= 1
    /\ queue # <<>> => queue[1] = Len(sink)
    /\ delivered # NoDelivery => delivered.idx = delivered.at

\* The subscriber left two poses untaken and then took the third.
C10_Witness ==
    /\ Len(sink) = 3
    /\ delivered = [idx |-> 3, at |-> 3]
    /\ queue = <<>>

IsCheck(n) == log[n].step \in {"check_true", "check_false"}

\* C11 (cooperative cancellation point): ros::ok() is tested once for each
\* iteration, right after the pace step of the iteration before and right
\* before the sample; a test that finds it false is the last step main
\* executes; no test happens between a sample and the pace step after it.
C11_CancellationPoint ==
    /\ \A n \in DOMAIN log :
          /\ IsCheck(n) =>
                /\ n = 1 \/ log[n - 1].step = "sleep"
                /\ n < Len(log) =>
                      /\ log[n] = [step |-> "check_true", iter |-> log[n + 1].iter]
                      /\ log[n + 1].step = "lookup"
          /\ log[n].step = "lookup" =>
                n > 1 /\ log[n - 1] = [step |-> "check_true", iter |-> log[n].iter]
          /\ (log[n].step = "sleep" /\ n < Len(log)) => IsCheck(n + 1)
    /\ \A i \in 1..iter : Count("check_true", i) = 1 /\ Count("check_false", i) = 0
    /\ pc = "done" <=> (log # <<>> /\ log[Len(log)].step = "check_false")

\* Shutdown was signalled in the middle of the second iteration, which then
\* published, paced, and only then found ros::ok() false.
C11_Witness ==
    /\ pc = "done"
    /\ iter = 2
    /\ Len(sink) = 2
    /\ Len(log) = 9

Lookups == {n \in DOMAIN log : log[n].step = "lookup"}

\* C12 (retry in the loop, paced on both paths): an iteration looks up once,
\* and between two lookups that follow one another there is exactly one pace
\* step, whether the first of them failed or succeeded.
C12_PacedRetry ==
    /\ \A i \in 1..Len(sampled) : Count("lookup", i) = 1
    /\ Cardinality(Lookups) = Len(sampled)
    /\ \A m, n \in Lookups :
          (m < n /\ \A l \in Lookups : ~(m < l /\ l < n)) => SleepsBetween(m, n) = 1
    /\ \A i \in 1..iter : Completed(i) => Count("sleep", i) = 1

\* A failed lookup, a successful one, and a third lookup.
C12_Witness ==
    /\ Len(sampled) = 3
    /\ IsFail(1)
    /\ IsSuccess(2)

\* The iterations whose lookup succeeded and that have passed line 38.
Published == {i \in 1..Len(sampled) : IsSuccess(i) /\ PastPublish(i)}

\* C14 (the sink receives the projections of the successful samples): the
\* poses handed to the sink are, in order, the Projector of the successful
\* samples; there are as many as successful lookups whose iteration has
\* passed the publish; and what is projected or published was never the
\* uninitialised transform of a failed lookup.
C14_PublishesAreSuccesses ==
    /\ Len(sink) = Cardinality(Published)
    /\ Cardinality(PublishesIn(1, iter)) = Len(sink)
    /\ \A i \in 1..Len(sampled) : Count("publish", i) = IF i \in Published THEN 1 ELSE 0
    /\ \A k \in 1..Len(sink) :
          /\ IsSuccess(IterOfPublish(k))
          /\ SampleOfPublish(k).init
          /\ sink[k] = Projector(SampleOfPublish(k))
    /\ pc \in {"project", "publish"} => tf.init /\ IsSuccess(iter)

\* A mix: success, failure, success, all completed.
C14_Witness ==
    /\ Len(sampled) = 3
    /\ IsSuccess(1) /\ IsFail(2) /\ IsSuccess(3)
    /\ pc = "while"
    /\ sink = <<Projector(sampled[1].tf), Projector(sampled[3].tf)>>

\* C13 as claimed (fixed-rate pacing measured from the start of the current
\* iteration): every pace step returns when the period since the iteration
\* entered the body has elapsed, or at once when that has passed already.
C13_PeriodFromIterationStart ==
    \A i \in 1..Len(paced) :
       paced[i].returned = Max(paced[i].called, began[i] + expected_cycle_time)

\* C13 (fixed-rate pacing), amended: every pace step returns when the period
\* since the scheduled start of its cycle has elapsed, or at once when that
\* has passed already, as it has when the iteration's work took longer than
\* the period; the next iteration starts at that return.  The scheduled start
\* is the start of the iteration for the first iteration and after a pace
\* step that waited; otherwise it is the scheduled end of the cycle before,
\* or the time of the call before when that was more than a period late.
C13_FixedRatePacing ==
    /\ Len(began) = iter
    /\ \A i \in 1..Len(paced) :
          LET p == paced[i]
          IN /\ p.returned = Max(p.called, p.sched + expected_cycle_time)
             /\ p.sched <= began[i]
             /\ began[i] <= p.called
             /\ p.called - began[i] > expected_cycle_time => p.returned = p.called
             /\ i = 1 => p.sched = began[1]
             /\ i < Len(began) => began[i + 1] = p.returned
             /\ i < Len(paced) =>
                   /\ paced[i + 1].sched =
                         IF p.called > p.sched + 2 * expected_cycle_time
                         THEN p.called
                         ELSE p.sched + expected_cycle_time
                   /\ p.returned > p.called => paced[i + 1].sched = began[i + 1]

\* An iteration overran its period, so its pace step did not wait, and the
\* pace step of the next one waited for less than a period after its start.
C13_Witness ==
    /\ Len(paced) >= 2
    /\ paced[1].called - began[1] > expected_cycle_time
    /\ paced[1].returned = paced[1].called
    /\ paced[2].returned > paced[2].called
    /\ paced[2].returned < began[2] + expected_cycle_time

After(s) == {n \in DOMAIN log : n > signal /\ log[n].step = s}

\* C15, the part that holds in every state: after shutdown is signalled the
\* loop enters no new iteration and executes at most one lookup, one publish
\* and one pace step, the rest of the iteration in progress; and when main
\* has left the loop every iteration begun has run to its end, with its
\* publish when its lookup succeeded.
C15_AtMostOneIteration ==
    /\ signal >= 0 =>
          /\ ~ok
          /\ After("check_true") = {}
          /\ Cardinality(After("lookup")) <= 1
          /\ Cardinality(After("publish")) <= 1
          /\ Cardinality(After("sleep")) <= 1
    /\ pc = "done" =>
          /\ signal >= 0
          /\ \A i \in 1..iter :
                /\ Count("lookup", i) = 1
                /\ Count("sleep", i) = 1
                /\ Count("publish", i) = IF IsSuccess(i) THEN 1 ELSE 0

\* C15 (bounded shutdown response): the above, and once shutdown is
\* signalled main leaves the loop, provided its steps return.
C15_BoundedShutdown ==
    /\ []C15_AtMostOneIteration
    /\ (signal >= 0) ~> (pc = "done")

\* Shutdown was signalled before the lookup of the second iteration, which
\* still published, and main has left the loop.
C15_Witness ==
    /\ pc = "done"
    /\ iter = 2
    /\ Cardinality(After("lookup")) = 1
    /\ Cardinality(After("publish")) = 1
    /\ Len(sink) = 2
====
